---- MODULE Spec2Model ----
(***************************************************************************)
(* Model of file_manager.py: the horizontal concatenation pipeline         *)
(* (concatenate_videos_horizontally), the crop primitive (crop_frame) and  *)
(* the user-video pair matcher (concatenate_user_videos).                  *)
(***************************************************************************)
EXTENDS Integers, Sequences, FiniteSets, TLC

\* ------------------------------------------------------------------ bounds
MaxVideos == 3      \* longest video_paths list explored
MaxFrames == 3      \* most frames a source yields before read() fails
MaxDim == 3         \* largest frame height and width explored
MaxCamera == 4      \* most files globbed in UserCameraControl
MaxObject == 2      \* most files globbed in UserObjectControl
MaxStem == 3        \* longest file stem given to normalize_name
MaxSubdirs == 2     \* most subdirectories of MC-Bench
MaxItems == 2       \* most *.mp4 entries in one subdirectory

\* ------------------------------------------------------------ state
VARIABLES
    \* concatenate_videos_horizontally
    video_paths,        \* per source: the number of frames read() yields
    output_path,        \* caller's output path, a sequence of path tokens
    duplicate_frames,   \* the slowdown flag
    pc,                 \* position in the function
    caps,               \* the opened VideoCapture handles, in list order
    idx,                \* index of the running for loop (1-based)
    open_failed,        \* index of the source whose open failed, 0 if none
    frames,             \* frames read on the current tick
    out,                \* the VideoWriter
    frame_count,        \* frame_count of the processing loop
    ret,                \* the function's return value
    \* crop_frame
    frame,              \* the input frame: its row and column indices
    crop_params,        \* the crop spec {x, y, w, h}
    cropped,            \* what crop_frame returned, or NotCalled
    \* concatenate_user_videos
    camera_exists,      \* camera_path.exists()
    object_exists,      \* object_path.exists()
    camera_videos,      \* the mp4 files globbed in UserCameraControl
    object_videos,      \* the mp4 files globbed in UserObjectControl
    upc,                \* position in concatenate_user_videos
    ui,                 \* index of the running for loop (1-based)
    pairs,              \* the dict find_pairs_in_directory is building
    camera_pairs,       \* find_pairs_in_directory(camera_videos)
    object_pairs,       \* find_pairs_in_directory(object_videos)
    pairs_found,        \* the (warped, ours) tuples to concatenate
    missing,            \* the "Missing ... video for ..." warnings printed
    unmatched,          \* unmatched_camera and unmatched_object together
    calls,              \* the calls of concatenate_videos_horizontally made
    total_processed,    \* pairs concatenated successfully
    errors,             \* the errors list
    uret,               \* the workflow's return value
    \* normalize_name
    stems,              \* the stems of two files of one directory
    keys,               \* their grouping keys, or NoKeys before the call
    \* crop_motionpro_videos
    mc_bench_exists,    \* mc_bench_path.exists()
    subdirs,            \* the number of subdirectories of MC-Bench
    cpc,                \* position in crop_motionpro_videos
    ci,                 \* index of the subdirectory being processed
    crop_src,           \* the MotionPro.mp4 of that subdirectory
    crop_cap,           \* its VideoCapture
    crop_out,           \* the VideoWriter of MotionPro_cropped.mp4
    crop_params_adjusted, \* the crop spec chosen for the video
    crop_total,         \* total_processed
    crop_errors,        \* the errors list
    crop_ret,           \* the workflow's return value
    \* rename_mcbench_videos
    rn_exists,          \* mc_bench_path.exists()
    rn_subdirs,         \* the number of subdirectories of MC-Bench
    rn_items,           \* the number of *.mp4 entries of the subdirectory
    rpc,                \* position in rename_mcbench_videos
    rsi,                \* index of the subdirectory being processed
    rii,                \* index of the *.mp4 entry being processed
    rn_item,            \* the *.mp4 entry being processed
    video_at,           \* where the video of that entry is on disk
    dir_state,          \* whether the directory named *.mp4 is still there
    rn_total,           \* total_processed
    rn_errors,          \* the errors list
    rn_ret              \* the workflow's return value

concatVars == <<video_paths, output_path, duplicate_frames, pc, caps, idx,
                open_failed, frames, out, frame_count, ret>>

cropVars == <<frame, crop_params, cropped>>

userVars == <<camera_exists, object_exists, camera_videos, object_videos, upc,
              ui, pairs, camera_pairs, object_pairs, pairs_found, missing,
              unmatched, calls, total_processed, errors, uret>>

nameVars == <<stems, keys>>

flowVars == <<mc_bench_exists, subdirs, cpc, ci, crop_src, crop_cap, crop_out,
              crop_params_adjusted, crop_total, crop_errors, crop_ret>>

renameVars == <<rn_exists, rn_subdirs, rn_items, rpc, rsi, rii, rn_item,
                video_at, dir_state, rn_total, rn_errors, rn_ret>>

notConcatVars == <<cropVars, userVars, nameVars, flowVars, renameVars>>

notCropVars == <<concatVars, userVars, nameVars, flowVars, renameVars>>

notUserVars == <<concatVars, cropVars, nameVars, flowVars, renameVars>>

notNameVars == <<concatVars, cropVars, userVars, flowVars, renameVars>>

notFlowVars == <<concatVars, cropVars, userVars, nameVars, renameVars>>

notRenameVars == <<concatVars, cropVars, userVars, nameVars, flowVars>>

vars == <<concatVars, cropVars, userVars, nameVars, flowVars, renameVars>>

\* ------------------------------------------------------------ helpers
Min2(a, b) == IF a <= b THEN a ELSE b

Max2(a, b) == IF a >= b THEN a ELSE b

RECURSIVE MinOf(_)
MinOf(s) == IF Len(s) = 1 THEN s[1] ELSE Min2(s[1], MinOf(Tail(s)))

SeqsUpTo(S, n) == UNION {[1..k -> S] : k \in 0..n}

\* ------------------------------------------------ cv2.VideoCapture
\* cv2.VideoCapture(path) that isOpened(): a cursor at frame 0
NewCapture(i) == [src |-> i, pos |-> 0, reads |-> 0, released |-> 0]

\* cap.read() succeeds while the cursor is before the end of the source
CanRead(cap) == cap.pos < video_paths[cap.src]

\* cap.read(): one call, the cursor advances only when a frame is produced
ReadCap(cap) ==
    IF CanRead(cap)
    THEN [cap EXCEPT !.pos = @ + 1, !.reads = @ + 1]
    ELSE [cap EXCEPT !.reads = @ + 1]

\* the frame a successful read() has just produced: (source, ordinal)
FrameOf(cap) == <<cap.src, cap.pos + 1>>

SetPosFramesNoop(cap, p) == cap

SetPosFramesFirstOnly(cap, p) ==
    IF cap.src = 1 THEN [cap EXCEPT !.pos = p] ELSE cap

\* cap.set(cv2.CAP_PROP_POS_FRAMES, p)
SetPosFrames(cap, p) == [cap EXCEPT !.pos = p]

\* for c in caps: c.release()
ReleaseAll(cs) == [k \in 1..Len(cs) |-> [cs[k] EXCEPT !.released = @ + 1]]

KeepOpened(cs) == cs

\* the release loop of the open-failure branch
CloseOpened(cs) == ReleaseAll(cs)

\* ------------------------------------------------ cv2.VideoWriter
NoWriter == [state |-> "none", path |-> <<>>, written |-> <<>>]

\* str.replace('.mp4', '.avi') on a path held as tokens
ReplaceMp4(path) ==
    [k \in 1..Len(path) |-> IF path[k] = ".mp4" THEN ".avi" ELSE path[k]]

OutputPaths == { <<"out", ".mp4">>, <<"out", ".avi">>, <<"out", ".mp4", ".bak">> }

\* ------------------------------------------------ crop_frame
\* a frame of height h and width w, a pixel being named by (row, column)
MakeFrame(h, w) == [rows |-> [r \in 1..h |-> r], cols |-> [c \in 1..w |-> c]]

NotCalled == [kind |-> "none"]

NoFrame == MakeFrame(0, 0)

NoCrop == [x |-> 0, y |-> 0, w |-> 0, h |-> 0]

\* a slice bound of Python/numpy basic slicing on an axis of length n:
\* negative bounds count from the end, and every bound is clamped to 0..n
SliceBound(n, a) == IF a < 0 THEN Max2(a + n, 0) ELSE Min2(a, n)

\* s[a:b] on one axis
PySlice(s, a, b) ==
    SubSeq(s, SliceBound(Len(s), a) + 1, SliceBound(Len(s), b))

crop_frame_w_zero(f, p) ==
    LET h == IF p.h = 0 THEN Len(f.rows) - p.y ELSE p.h
        w == IF p.w = 0 THEN Len(f.cols) - p.x ELSE p.w
    IN  [kind |-> "frame",
         rows |-> PySlice(f.rows, p.y, p.y + h),
         cols |-> PySlice(f.cols, p.x, p.x + w)]

\* crop_frame(frame, crop_params): the frame returned; no path raises
crop_frame(f, p) ==
    LET h == IF p.y + p.h = 0 THEN Len(f.rows) - p.y ELSE p.h
        w == IF p.x + p.w = 0 THEN Len(f.cols) - p.x ELSE p.w
    IN  [kind |-> "frame",
         rows |-> PySlice(f.rows, p.y, p.y + h),
         cols |-> PySlice(f.cols, p.x, p.x + w)]

\* ------------------------------------------------ file names
\* a file name is a sequence of characters
Ext == <<".", "m", "p", "4">>

Underscore == "_"

OurMarker == <<"o", "u", "r">>

WarpedMarker == <<"w", "a", "r", "p", "e", "d">>

\* str.find(c): 0-based index of the first c, -1 when there is none
Find(s, c) ==
    IF \E i \in 1..Len(s) : s[i] = c
    THEN (CHOOSE i \in 1..Len(s) :
              s[i] = c /\ \A j \in 1..(i - 1) : s[j] # c) - 1
    ELSE 0 - 1

\* sub in s
Contains(s, sub) ==
    \E i \in 0..(Len(s) - Len(sub)) :
        \A j \in 1..Len(sub) : s[i + j] = sub[j]

LowerChar(c) ==
    CASE c = "A" -> "a"
      [] c = "B" -> "b"
      [] OTHER -> c

\* str.lower()
Lower(s) == [i \in 1..Len(s) |-> LowerChar(s[i])]

\* Path.name of a video, its stem followed by the suffix
NameOf(video) == video.stem \o Ext

\* normalize_name(name): name[:name.find('_')].lower()
normalize_name(name) == Lower(PySlice(name, 0, Find(name, Underscore)))

\* the role the file name tags the video with
RoleOf(video) ==
    IF Contains(NameOf(video), OurMarker) THEN "ours"
    ELSE IF Contains(NameOf(video), WarpedMarker) THEN "warped"
    ELSE "unknown"

\* ------------------------------------------------ the pairs dict
\* a dict keeps insertion order: a slots dict is a sequence of (role, video)
\* entries, the pairs dict a sequence of (key, slots) entries
HasRole(sl, r) == \E i \in 1..Len(sl) : sl[i].role = r

RoleVideo(sl, r) == sl[CHOOSE i \in 1..Len(sl) : sl[i].role = r].video

\* d[r] = v
SetRole(sl, r, v) ==
    IF HasRole(sl, r)
    THEN [i \in 1..Len(sl) |->
            IF sl[i].role = r THEN [role |-> r, video |-> v] ELSE sl[i]]
    ELSE Append(sl, [role |-> r, video |-> v])

KeepEntry(e) == e.role # "unknown"

\* del d["unknown"]
DelUnknown(sl) == SelectSeq(sl, KeepEntry)

HasKey(prs, k) == \E i \in 1..Len(prs) : prs[i].key = k

SlotsOf(prs, k) == prs[CHOOSE i \in 1..Len(prs) : prs[i].key = k].slots

\* pairs[k] = sl
SetSlots(prs, k, sl) ==
    IF HasKey(prs, k)
    THEN [i \in 1..Len(prs) |->
            IF prs[i].key = k THEN [key |-> k, slots |-> sl] ELSE prs[i]]
    ELSE Append(prs, [key |-> k, slots |-> sl])

AddOursKeepsUnknown(sl, v) ==
    LET s1 == SetRole(sl, "ours", v) IN
    IF HasRole(s1, "unknown") THEN SetRole(s1, "warped", v) ELSE s1

\* the branch of a file tagged "ours" whose key is already in pairs
AddOurs(sl, v) ==
    LET s1 == SetRole(sl, "ours", v) IN
    IF HasRole(s1, "unknown")
    THEN DelUnknown(SetRole(s1, "warped", v))
    ELSE s1

\* the branch of a file tagged "warped" whose key is already in pairs
AddWarped(sl, v) ==
    LET s1 == SetRole(sl, "warped", v) IN
    IF HasRole(s1, "unknown")
    THEN DelUnknown(SetRole(s1, "ours", v))
    ELSE s1

\* other_name = list(pairs[video_name].keys())[0]
OtherName(sl) == sl[1].role

\* the raise of the untagged branch
RaisesValueError(prs, video) ==
    /\ RoleOf(video) = "unknown"
    /\ HasKey(prs, normalize_name(video.stem))
    /\ OtherName(SlotsOf(prs, normalize_name(video.stem))) \notin {"ours", "warped"}

AddUnknownAsUnknown(sl, v) == SetRole(sl, "unknown", v)

\* the branch of an untagged file whose key is already in pairs (no raise)
AddUnknown(sl, v) ==
    IF OtherName(sl) = "ours"
    THEN SetRole(sl, "warped", v)
    ELSE SetRole(sl, "ours", v)

\* one iteration of "for video in videos" of find_pairs_in_directory that
\* does not raise: the pairs dict after it
AddVideo(prs, video) ==
    LET k == normalize_name(video.stem)
        r == RoleOf(video)
    IN  IF ~HasKey(prs, k)
        THEN SetSlots(prs, k, <<[role |-> r, video |-> video]>>)
        ELSE SetSlots(prs, k,
                 CASE r = "ours" -> AddOurs(SlotsOf(prs, k), video)
                   [] r = "warped" -> AddWarped(SlotsOf(prs, k), video)
                   [] OTHER -> AddUnknown(SlotsOf(prs, k), video))

IsPair(sl) == HasRole(sl, "ours") /\ HasRole(sl, "warped")

\* the (warped, ours) tuples the final pass appends for one pairs dict
RECURSIVE PairsOf(_)
PairsOf(prs) ==
    IF prs = <<>> THEN <<>>
    ELSE (IF IsPair(prs[1].slots)
          THEN << <<RoleVideo(prs[1].slots, "warped"),
                    RoleVideo(prs[1].slots, "ours")>> >>
          ELSE <<>>) \o PairsOf(Tail(prs))

MissingOfSwapped(prs) ==
    { [key |-> prs[i].key,
       missing_type |-> IF HasRole(prs[i].slots, "ours") THEN "ours" ELSE "warped"] :
      i \in {j \in 1..Len(prs) : ~IsPair(prs[j].slots)} }

\* the "Missing <type> video for <key>" warnings of one pairs dict
MissingOf(prs) ==
    { [key |-> prs[i].key,
       missing_type |-> IF HasRole(prs[i].slots, "ours") THEN "warped" ELSE "ours"] :
      i \in {j \in 1..Len(prs) : ~IsPair(prs[j].slots)} }

Range(s) == {s[i] : i \in 1..Len(s)}

\* camera_processed / object_processed
Processed(prs) ==
    UNION { {PairsOf(prs)[i][1], PairsOf(prs)[i][2]} : i \in 1..Len(PairsOf(prs)) }

\* ------------------------------------------------ idle components
ConcatIdle ==
    /\ video_paths = <<>>
    /\ output_path = <<>>
    /\ duplicate_frames = FALSE
    /\ pc = "idle"
    /\ caps = <<>>
    /\ idx = 1
    /\ open_failed = 0
    /\ frames = <<>>
    /\ out = NoWriter
    /\ frame_count = 0
    /\ ret = "none"

CropIdle ==
    /\ frame = NoFrame
    /\ crop_params = NoCrop
    /\ cropped = NotCalled

UserIdle ==
    /\ camera_exists = FALSE
    /\ object_exists = FALSE
    /\ camera_videos = <<>>
    /\ object_videos = <<>>
    /\ upc = "idle"
    /\ ui = 1
    /\ pairs = <<>>
    /\ camera_pairs = <<>>
    /\ object_pairs = <<>>
    /\ pairs_found = <<>>
    /\ missing = {}
    /\ unmatched = {}
    /\ calls = <<>>
    /\ total_processed = 0
    /\ errors = <<>>
    /\ uret = "none"

NoKeys == <<>>

NameIdle ==
    /\ stems = <<>>
    /\ keys = NoKeys

NoSource == [exists |-> FALSE, width |-> 0, height |-> 0, nframes |-> 0]

NoCapture == [state |-> "none", pos |-> 0]

NoCropWriter == [state |-> "none", width |-> 0, height |-> 0, written |-> <<>>]

FlowIdle ==
    /\ mc_bench_exists = FALSE
    /\ subdirs = 0
    /\ cpc = "idle"
    /\ ci = 1
    /\ crop_src = NoSource
    /\ crop_cap = NoCapture
    /\ crop_out = NoCropWriter
    /\ crop_params_adjusted = NoCrop
    /\ crop_total = 0
    /\ crop_errors = <<>>
    /\ crop_ret = "none"

NoItem == [is_dir |-> FALSE, inside |-> 0, other_files |-> FALSE]

RenameIdle ==
    /\ rn_exists = FALSE
    /\ rn_subdirs = 0
    /\ rn_items = 0
    /\ rpc = "idle"
    /\ rsi = 1
    /\ rii = 1
    /\ rn_item = NoItem
    /\ video_at = "none"
    /\ dir_state = "none"
    /\ rn_total = 0
    /\ rn_errors = <<>>
    /\ rn_ret = "none"

\* ------------------------------------------------------------ Init
Init ==
    /\ video_paths \in SeqsUpTo(0..MaxFrames, MaxVideos)
    /\ output_path \in OutputPaths
    /\ duplicate_frames \in BOOLEAN
    /\ pc = "start"
    /\ caps = <<>>
    /\ idx = 1
    /\ open_failed = 0
    /\ frames = <<>>
    /\ out = NoWriter
    /\ frame_count = 0
    /\ ret = "none"
    /\ CropIdle
    /\ UserIdle
    /\ NameIdle
    /\ FlowIdle
    /\ RenameIdle

\* ------------------------------------------------------------ actions
\* if not video_paths: return False
CheckPaths ==
    /\ pc = "start"
    /\ IF video_paths = <<>>
       THEN pc' = "done" /\ ret' = "False"
       ELSE pc' = "open" /\ ret' = ret
    /\ UNCHANGED <<video_paths, output_path, duplicate_frames, caps, idx,
                   open_failed, frames, out, frame_count>>
    /\ UNCHANGED notConcatVars

\* one iteration of "for video_path in video_paths"
OpenCapture ==
    /\ pc = "open"
    /\ \E isOpened \in BOOLEAN :
         IF isOpened
         THEN /\ caps' = Append(caps, NewCapture(idx))
              /\ IF idx = Len(video_paths)
                 THEN pc' = "prime" /\ idx' = 1
                 ELSE pc' = pc /\ idx' = idx + 1
              /\ UNCHANGED <<open_failed, ret>>
         ELSE /\ caps' = CloseOpened(caps)
              /\ open_failed' = idx
              /\ pc' = "done"
              /\ ret' = "False"
              /\ idx' = idx
    /\ UNCHANGED <<video_paths, output_path, duplicate_frames, frames, out,
                   frame_count>>
    /\ UNCHANGED notConcatVars

\* one iteration of "for i, cap in enumerate(caps)" reading the first frames
PrimeRead ==
    /\ pc = "prime"
    /\ IF ~CanRead(caps[idx])
       THEN \* return False from inside the try block
            /\ caps' = [caps EXCEPT ![idx] = ReadCap(@)]
            /\ pc' = "done"
            /\ ret' = "False"
            /\ idx' = idx
       ELSE \E raised \in BOOLEAN :
            IF raised
            THEN \* resize_frame_to_height raises
                 /\ caps' = [caps EXCEPT ![idx] = ReadCap(@)]
                 /\ pc' = "except"
                 /\ UNCHANGED <<ret, idx>>
            ELSE /\ caps' = [caps EXCEPT ![idx] = SetPosFrames(ReadCap(@), 0)]
                 /\ IF idx = Len(caps)
                    THEN pc' = "writer" /\ idx' = 1
                    ELSE pc' = pc /\ idx' = idx + 1
                 /\ ret' = ret
    /\ UNCHANGED <<video_paths, output_path, duplicate_frames, open_failed,
                   frames, out, frame_count>>
    /\ UNCHANGED notConcatVars

\* cv2.VideoWriter with mp4v, then XVID on the .avi path
CreateWriter ==
    /\ pc = "writer"
    /\ \E mp4v \in BOOLEAN, xvid \in BOOLEAN :
         IF mp4v
         THEN /\ out' = [state |-> "open", path |-> output_path, written |-> <<>>]
              /\ pc' = "loop"
              /\ ret' = ret
         ELSE IF xvid
         THEN /\ out' = [state |-> "open", path |-> ReplaceMp4(output_path),
                         written |-> <<>>]
              /\ pc' = "loop"
              /\ ret' = ret
         ELSE /\ out' = out
              /\ pc' = "done"
              /\ ret' = "False"
    /\ UNCHANGED <<video_paths, output_path, duplicate_frames, caps, idx,
                   open_failed, frames, frame_count>>
    /\ UNCHANGED notConcatVars

\* one iteration of the inner "for i, cap in enumerate(caps)" of the loop
LoopRead ==
    /\ pc = "loop"
    /\ caps' = [caps EXCEPT ![idx] = ReadCap(@)]
    /\ IF ~CanRead(caps[idx])
       THEN \* all_read_successfully = False; break; break
            /\ pc' = "cleanup"
            /\ UNCHANGED <<frames, idx>>
       ELSE \E raised \in BOOLEAN :
            IF raised
            THEN pc' = "except" /\ UNCHANGED <<frames, idx>>
            ELSE /\ frames' = Append(frames, FrameOf(caps[idx]))
                 /\ IF idx = Len(caps)
                    THEN pc' = "write" /\ idx' = 1
                    ELSE pc' = pc /\ idx' = idx + 1
    /\ UNCHANGED <<video_paths, output_path, duplicate_frames, open_failed,
                   out, frame_count, ret>>
    /\ UNCHANGED notConcatVars

\* np.concatenate, out.write, and the second out.write of the slowdown
LoopWrite ==
    /\ pc = "write"
    /\ \E fault \in {"none", "first", "second"} :
         CASE fault = "first" ->
                /\ pc' = "except"
                /\ UNCHANGED <<out, frame_count>>
           [] fault = "second" ->
                /\ duplicate_frames
                /\ out' = [out EXCEPT !.written = Append(@, frames)]
                /\ frame_count' = frame_count + 1
                /\ pc' = "except"
           [] OTHER ->
                /\ out' = [out EXCEPT !.written =
                             IF duplicate_frames
                             THEN Append(Append(@, frames), frames)
                             ELSE Append(@, frames)]
                /\ frame_count' = frame_count + (IF duplicate_frames THEN 2 ELSE 1)
                /\ pc' = "loop"
    /\ frames' = <<>>
    /\ UNCHANGED <<video_paths, output_path, duplicate_frames, caps, idx,
                   open_failed, ret>>
    /\ UNCHANGED notConcatVars

\* the clean-up after the loop, return True
Cleanup ==
    /\ pc = "cleanup"
    /\ caps' = ReleaseAll(caps)
    /\ out' = [out EXCEPT !.state = "released"]
    /\ pc' = "done"
    /\ ret' = "True"
    /\ UNCHANGED <<video_paths, output_path, duplicate_frames, idx,
                   open_failed, frames, frame_count>>
    /\ UNCHANGED notConcatVars

\* except Exception: release the captures, return False
ExceptHandler ==
    /\ pc = "except"
    /\ caps' = ReleaseAll(caps)
    /\ pc' = "done"
    /\ ret' = "False"
    /\ UNCHANGED <<video_paths, output_path, duplicate_frames, idx,
                   open_failed, frames, out, frame_count>>
    /\ UNCHANGED notConcatVars

Next ==
    \/ CheckPaths
    \/ OpenCapture
    \/ PrimeRead
    \/ CreateWriter
    \/ LoopRead
    \/ LoopWrite
    \/ Cleanup
    \/ ExceptHandler

Spec == Init /\ [][Next]_vars

\* ------------------------------------------------ claims: concatenation
Returned == pc = "done"

\* C1: every VideoCapture that was opened has been released exactly once
\* when concatenate_videos_horizontally returns, on every exit path.
CapturesReleasedOnce ==
    Returned => \A k \in 1..Len(caps) : caps[k].released = 1

\* C2: when the k-th source fails to open, the function returns failure with
\* each of the k-1 captures opened before it released, no frame read and no
\* writer created.
OpenFailureReleasesAll ==
    open_failed # 0 =>
        /\ Returned
        /\ ret = "False"
        /\ Len(caps) = open_failed - 1
        /\ \A k \in 1..Len(caps) :
               caps[k].released = 1 /\ caps[k].reads = 0
        /\ out.state = "none"
        /\ frame_count = 0

SecondOfThreeFailsToOpen ==
    /\ Returned
    /\ Len(video_paths) = 3
    /\ open_failed = 2
    /\ Len(caps) = 1

\* C3: once the VideoWriter has been created it is released by the time the
\* function returns, on every exit path.
WriterReleased ==
    (Returned /\ out.state # "none") => out.state = "released"

\* C4: a successful run writes exactly min(L1..Ln) composite frames, twice
\* that with duplicate_frames, and the output starts with the first frame of
\* every source (the frame read to compute the width is not lost).
ExactFrameCount ==
    (Returned /\ ret = "True") =>
        LET m == MinOf(video_paths) * (IF duplicate_frames THEN 2 ELSE 1) IN
        /\ frame_count = m
        /\ Len(out.written) = m
        /\ out.written[1] = [k \in 1..Len(video_paths) |-> <<k, 1>>]

SlowdownRunOverThree ==
    /\ Returned
    /\ ret = "True"
    /\ duplicate_frames
    /\ video_paths = <<2, 3, 2>>
    /\ frame_count = 4

\* C10: the function returns success only when the composite video was
\* written to the caller's output path.
SuccessAtCallerPath ==
    (Returned /\ ret = "True") => out.path = output_path

\* the tick (1-based) whose composite is the j-th frame written
TickOf(j) == IF duplicate_frames THEN (j + 1) \div 2 ELSE j

\* the number of ticks that have written their composite
TicksWritten == TickOf(Len(out.written))

\* C12: every composite written holds, in list order, the frame of the same
\* ordinal of every source; after each written tuple all captures have
\* advanced by the same number of frames; and when a source yields no frame
\* the tick writes nothing and the captures read before it on that tick stay
\* advanced.
LockStepAlignment ==
    /\ \A j \in 1..Len(out.written) :
           out.written[j] = [k \in 1..Len(caps) |-> <<k, TickOf(j)>>]
    /\ (pc = "loop" /\ idx = 1) =>
           \A k \in 1..Len(caps) : caps[k].pos = TicksWritten
    /\ pc = "cleanup" =>
           /\ Len(out.written) = frame_count
           /\ frame_count = TicksWritten * (IF duplicate_frames THEN 2 ELSE 1)
           /\ \A k \in 1..Len(caps) :
                  caps[k].pos = IF k < idx THEN TicksWritten + 1
                                ELSE TicksWritten

SecondSourceEndsFirst ==
    /\ pc = "cleanup"
    /\ Len(caps) = 3
    /\ idx = 2
    /\ caps[1].pos = 2
    /\ caps[2].pos = 1
    /\ Len(out.written) >= 1

Offsets == (0 - (MaxDim + 1))..(MaxDim + 1)

Extents == 0..(MaxDim + 1)

CropInit ==
    /\ frame \in {MakeFrame(h, w) : h \in 1..MaxDim, w \in 1..MaxDim}
    /\ crop_params \in [x : Offsets, y : Offsets, w : Extents, h : Extents]
    /\ cropped = NotCalled
    /\ ConcatIdle
    /\ UserIdle
    /\ NameIdle
    /\ FlowIdle
    /\ RenameIdle

\* a call of crop_frame on the frame
CropFrame ==
    /\ cropped = NotCalled
    /\ cropped' = crop_frame(frame, crop_params)
    /\ UNCHANGED <<frame, crop_params>>
    /\ UNCHANGED notCropVars

CropNext == CropFrame

CropSpec == CropInit /\ [][CropNext]_vars

\* ------------------------------------------------ claims: crop_frame
Cropped == cropped.kind # "none"

FrameWidth == Len(frame.cols)

FrameHeight == Len(frame.rows)

\* the last k columns of the input frame
LastColumns(k) == SubSeq(frame.cols, FrameWidth - k + 1, FrameWidth)

\* C5: with w = 0 and 0 <= x < W the cropped frame has width W - x.
ZeroWidthExtendsToEdge ==
    (Cropped /\ crop_params.w = 0
             /\ crop_params.x >= 0 /\ crop_params.x < FrameWidth)
        => Len(cropped.cols) = FrameWidth - crop_params.x

BoxOutside ==
    \/ crop_params.x > FrameWidth
    \/ 0 - crop_params.x > FrameWidth
    \/ crop_params.x + crop_params.w > FrameWidth
    \/ crop_params.y > FrameHeight
    \/ 0 - crop_params.y > FrameHeight
    \/ crop_params.y + crop_params.h > FrameHeight

\* C7: crop_frame returns no frame for a crop box outside the frame bounds.
OutsideBoxRejected ==
    (Cropped /\ BoxOutside) => cropped.kind # "frame"

\* ------------------------------------------------ concatenate_user_videos
\* stems of the files the directories may hold
A_ours == <<"a", "_", "o", "u", "r", "s">>

A_warped == <<"a", "_", "w", "a", "r", "p", "e", "d">>

B_ours == <<"b", "_", "o", "u", "r", "s">>

B_unknown_thing == <<"b", "_", "u", "n", "k", "n", "o", "w", "n", "_", "t", "h", "i", "n", "g">>

B_clip == <<"b", "_", "c", "l", "i", "p">>

UpperB_warped == <<"B", "_", "w", "a", "r", "p", "e", "d">>

CameraStems == {A_ours, A_warped, B_ours, B_unknown_thing, B_clip, UpperB_warped}

ObjectStems == {A_ours, A_warped, B_clip}

Video(dir, stem) == [parent |-> dir, stem |-> stem]

\* the orders in which glob may list at most n files out of a set
Listings(S, n) ==
    {s \in SeqsUpTo(S, n) : \A i, j \in 1..Len(s) : i # j => s[i] # s[j]}

ConcatenatedSuffix ==
    <<"_", "c", "o", "n", "c", "a", "t", "e", "n", "a", "t", "e", "d">> \o Ext

UserInit ==
    /\ camera_exists \in BOOLEAN
    /\ object_exists \in BOOLEAN
    /\ camera_videos \in
         IF camera_exists
         THEN Listings({Video("camera", st) : st \in CameraStems}, MaxCamera)
         ELSE {<<>>}
    /\ object_videos \in
         IF object_exists
         THEN Listings({Video("object", st) : st \in ObjectStems}, MaxObject)
         ELSE {<<>>}
    /\ upc = "check"
    /\ ui = 1
    /\ pairs = <<>>
    /\ camera_pairs = <<>>
    /\ object_pairs = <<>>
    /\ pairs_found = <<>>
    /\ missing = {}
    /\ unmatched = {}
    /\ calls = <<>>
    /\ total_processed = 0
    /\ errors = <<>>
    /\ uret = "none"
    /\ ConcatIdle
    /\ CropIdle
    /\ NameIdle
    /\ FlowIdle
    /\ RenameIdle

\* the existence checks of the two top-level directories
CheckDirs ==
    /\ upc = "check"
    /\ IF ~camera_exists \/ ~object_exists
       THEN upc' = "returned" /\ uret' = "False"
       ELSE upc' = "find_camera" /\ uret' = uret
    /\ UNCHANGED <<camera_exists, object_exists, camera_videos, object_videos,
                   ui, pairs, camera_pairs, object_pairs, pairs_found,
                   missing, unmatched, calls, total_processed, errors>>
    /\ UNCHANGED notUserVars

\* find_pairs_in_directory(camera_videos), one video per step
FindCameraPairs ==
    /\ upc = "find_camera"
    /\ IF ui > Len(camera_videos)
       THEN /\ camera_pairs' = pairs
            /\ pairs' = <<>>
            /\ ui' = 1
            /\ upc' = "find_object"
       ELSE IF RaisesValueError(pairs, camera_videos[ui])
       THEN /\ upc' = "raised"
            /\ UNCHANGED <<camera_pairs, pairs, ui>>
       ELSE /\ pairs' = AddVideo(pairs, camera_videos[ui])
            /\ ui' = ui + 1
            /\ UNCHANGED <<camera_pairs, upc>>
    /\ UNCHANGED <<camera_exists, object_exists, camera_videos, object_videos,
                   object_pairs, pairs_found, missing, unmatched, calls,
                   total_processed, errors, uret>>
    /\ UNCHANGED notUserVars

\* find_pairs_in_directory(object_videos), one video per step
FindObjectPairs ==
    /\ upc = "find_object"
    /\ IF ui > Len(object_videos)
       THEN /\ object_pairs' = pairs
            /\ pairs' = <<>>
            /\ ui' = 1
            /\ upc' = "collect"
       ELSE IF RaisesValueError(pairs, object_videos[ui])
       THEN /\ upc' = "raised"
            /\ UNCHANGED <<object_pairs, pairs, ui>>
       ELSE /\ pairs' = AddVideo(pairs, object_videos[ui])
            /\ ui' = ui + 1
            /\ UNCHANGED <<object_pairs, upc>>
    /\ UNCHANGED <<camera_exists, object_exists, camera_videos, object_videos,
                   camera_pairs, pairs_found, missing, unmatched, calls,
                   total_processed, errors, uret>>
    /\ UNCHANGED notUserVars

\* the final pass over camera_pairs and object_pairs, the unmatched report
\* and the "No matching video pairs found!" return
CollectPairs ==
    /\ upc = "collect"
    /\ pairs_found' = PairsOf(camera_pairs) \o PairsOf(object_pairs)
    /\ missing' = MissingOf(camera_pairs) \cup MissingOf(object_pairs)
    /\ unmatched' = (Range(camera_videos) \ Processed(camera_pairs))
                       \cup (Range(object_videos) \ Processed(object_pairs))
    /\ IF pairs_found' = <<>>
       THEN upc' = "returned" /\ uret' = "False"
       ELSE upc' = "process" /\ uret' = uret
    /\ UNCHANGED <<camera_exists, object_exists, camera_videos, object_videos,
                   ui, pairs, camera_pairs, object_pairs, calls,
                   total_processed, errors>>
    /\ UNCHANGED notUserVars

\* the arguments of the call made for one (warped, ours) tuple
CallFor(pair) ==
    [video_paths |-> <<pair[1], pair[2]>>,
     output_path |-> [parent |-> pair[1].parent,
                      name |-> normalize_name(pair[1].stem) \o ConcatenatedSuffix],
     duplicate_frames |-> (pair[1].parent = "camera")]

\* one iteration of "for warped_video, ours_video in pairs_found"; the
\* summary and the return follow the last one
ProcessPair ==
    /\ upc = "process"
    /\ calls' = Append(calls, CallFor(pairs_found[ui]))
    /\ \E outcome \in {"True", "False", "raise"} :
         IF outcome = "True"
         THEN /\ total_processed' = total_processed + 1
              /\ errors' = errors
         ELSE /\ total_processed' = total_processed
              /\ errors' = Append(errors, [pair |-> pairs_found[ui],
                                           cause |-> outcome])
    /\ IF ui = Len(pairs_found)
       THEN /\ upc' = "returned"
            /\ uret' = IF errors' = <<>> THEN "True" ELSE "False"
            /\ ui' = ui
       ELSE /\ ui' = ui + 1
            /\ UNCHANGED <<upc, uret>>
    /\ UNCHANGED <<camera_exists, object_exists, camera_videos, object_videos,
                   pairs, camera_pairs, object_pairs, pairs_found, missing,
                   unmatched>>
    /\ UNCHANGED notUserVars

UserNext ==
    \/ CheckDirs
    \/ FindCameraPairs
    \/ FindObjectPairs
    \/ CollectPairs
    \/ ProcessPair

UserSpec == UserInit /\ [][UserNext]_vars

\* ------------------------------------------------ claims: pair matcher
\* the video find_pairs_in_directory is about to take, if any
Grouping == upc \in {"find_camera", "find_object"}

CurrentVideos == IF upc = "find_camera" THEN camera_videos ELSE object_videos

AtVideo == Grouping /\ ui <= Len(CurrentVideos)

CurrentVideo == CurrentVideos[ui]

CurrentKey == normalize_name(CurrentVideo.stem)

ExactlyOneTyped(sl) == HasRole(sl, "ours") # HasRole(sl, "warped")

MissingRole(sl) == IF HasRole(sl, "ours") THEN "warped" ELSE "ours"

\* an untagged file arrives for a key that has exactly one typed slot
UnknownMeetsOneTyped ==
    /\ AtVideo
    /\ RoleOf(CurrentVideo) = "unknown"
    /\ HasKey(pairs, CurrentKey)
    /\ ExactlyOneTyped(SlotsOf(pairs, CurrentKey))

\* the step gave the untagged file the missing role and completed the key
TookMissingRole ==
    LET old == SlotsOf(pairs, CurrentKey)
        new == SlotsOf(pairs', CurrentKey)
    IN  /\ upc' = upc
        /\ IsPair(new)
        /\ ~HasRole(new, "unknown")
        /\ RoleVideo(new, MissingRole(old)) = CurrentVideo
        /\ RoleVideo(new, RoleOf(old[1].video)) = old[1].video

ExampleListing ==
    <<Video("camera", A_ours), Video("camera", A_warped),
      Video("camera", B_ours), Video("camera", B_unknown_thing)>>

\* the listing a_ours, a_warped, b_ours, b_unknown_thing gives the pairs a
\* and b, with the untagged file as b's warped video, and no unmatched file
ExamplePaired ==
    (camera_videos = ExampleListing /\ upc = "process") =>
        /\ <<Video("camera", A_warped), Video("camera", A_ours)>>
               \in Range(pairs_found)
        /\ <<Video("camera", B_unknown_thing), Video("camera", B_ours)>>
               \in Range(pairs_found)
        /\ unmatched \cap Range(camera_videos) = {}
        /\ MissingOf(camera_pairs) = {}

\* C8: an untagged file arriving for a key with exactly one typed slot takes
\* the missing role and completes the key; the listing a_ours, a_warped,
\* b_ours, b_unknown_thing yields the complete pairs a and b and no
\* unmatched file.
UnknownCompletesPair ==
    /\ [][UnknownMeetsOneTyped => TookMissingRole]_vars
    /\ []ExamplePaired

ExampleListingPaired ==
    /\ camera_videos = ExampleListing
    /\ upc = "process"
    /\ camera_pairs # <<>>
    /\ IsPair(SlotsOf(camera_pairs, <<"b">>))
    /\ RoleVideo(SlotsOf(camera_pairs, <<"b">>), "warped")
           = Video("camera", B_unknown_thing)

\* C9: with both top-level directories present no error aborts the
\* invocation: every failure is recorded and the batch goes on to return.
ErrorsRecoveredPerItem ==
    (camera_exists /\ object_exists) => upc # "raised"

\* the slots dict of the current key holds an untagged file and nothing else
OnlyUnknownHeld ==
    /\ HasKey(pairs, CurrentKey)
    /\ HasRole(SlotsOf(pairs, CurrentKey), "unknown")
    /\ ~HasRole(SlotsOf(pairs, CurrentKey), "ours")
    /\ ~HasRole(SlotsOf(pairs, CurrentKey), "warped")

\* C13: find_pairs_in_directory raises exactly when an untagged file arrives
\* for a key whose slots hold only an untagged file; with a typed slot
\* present for the key it does not raise.
AmbiguityExactlyOnSecondUnknown ==
    [][AtVideo =>
         ((upc' = "raised")
             <=> (RoleOf(CurrentVideo) = "unknown" /\ OnlyUnknownHeld))]_vars

SecondUnknownRaised ==
    /\ upc = "raised"
    /\ ui = 2
    /\ Len(camera_videos) >= 2
    /\ camera_videos[1] = Video("camera", B_clip)
    /\ camera_videos[2] = Video("camera", B_unknown_thing)
    /\ pairs = <<[key |-> <<"b">>,
                  slots |-> <<[role |-> "unknown",
                               video |-> Video("camera", B_clip)]>>]>>

\* the final pass has run
Collected ==
    upc = "process" \/ (upc = "returned" /\ camera_exists /\ object_exists)

\* the positions in pairs_found of the tuples of one directory
PairsIn(dir) == {i \in 1..Len(pairs_found) : pairs_found[i][1].parent = dir}

\* the final pass over one directory's pairs dict and file list
FinalPassOf(prs, videos, dir) ==
    /\ \A j \in 1..Len(prs) :
         IF HasRole(prs[j].slots, "ours") /\ HasRole(prs[j].slots, "warped")
         THEN \E i \in PairsIn(dir) :
                  pairs_found[i] = <<RoleVideo(prs[j].slots, "warped"),
                                     RoleVideo(prs[j].slots, "ours")>>
         ELSE /\ \A i \in PairsIn(dir) :
                     normalize_name(pairs_found[i][1].stem) # prs[j].key
              /\ \E m \in missing :
                     m.key = prs[j].key /\ ~HasRole(prs[j].slots, m.missing_type)
    /\ Cardinality(PairsIn(dir)) =
           Cardinality({j \in 1..Len(prs) :
                           HasRole(prs[j].slots, "ours")
                               /\ HasRole(prs[j].slots, "warped")})
    /\ \A v \in Range(videos) :
           (\A i \in 1..Len(pairs_found) :
                v # pairs_found[i][1] /\ v # pairs_found[i][2])
               => v \in unmatched

\* C14: after the final pass a key contributes a pair exactly when its ours
\* and warped slots are both filled; every other key is reported with a
\* role it lacks and contributes no pair; every file in no pair is reported
\* unmatched.
FinalPassReportsAll ==
    Collected =>
        /\ FinalPassOf(camera_pairs, camera_videos, "camera")
        /\ FinalPassOf(object_pairs, object_videos, "object")

PairIncompleteAndUnmatched ==
    /\ upc = "process"
    /\ PairsIn("camera") # {}
    /\ \E j \in 1..Len(camera_pairs) : ~IsPair(camera_pairs[j].slots)
    /\ unmatched \cap Range(camera_videos) # {}
    /\ missing # {}

\* the ours and warped slots of every complete key of a pairs dict hold
\* different files
DistinctSlots(prs) ==
    \A j \in 1..Len(prs) :
        IsPair(prs[j].slots) =>
            RoleVideo(prs[j].slots, "ours") # RoleVideo(prs[j].slots, "warped")

\* C17: in every processing order a resolved pair consists of two distinct
\* files: the ours and warped slots of a key never hold the same file, and
\* no tuple of pairs_found names one file twice.
PairOfDistinctFiles ==
    /\ DistinctSlots(pairs)
    /\ DistinctSlots(camera_pairs)
    /\ DistinctSlots(object_pairs)
    /\ \A i \in 1..Len(pairs_found) : pairs_found[i][1] # pairs_found[i][2]

\* ------------------------------------------------ normalize_name
StemChars == {"a", "b", "A", "_"}

\* the stems of at most MaxStem characters (a stem is never empty)
Stems == SeqsUpTo(StemChars, MaxStem) \ {<<>>}

NameInit ==
    /\ stems \in Stems \X Stems
    /\ keys = NoKeys
    /\ ConcatIdle
    /\ CropIdle
    /\ UserIdle
    /\ FlowIdle
    /\ RenameIdle

\* video_name = normalize_name(video.stem) for the two files
NormalizeNames ==
    /\ keys = NoKeys
    /\ keys' = <<normalize_name(stems[1]), normalize_name(stems[2])>>
    /\ UNCHANGED stems
    /\ UNCHANGED notNameVars

NameNext == NormalizeNames

NameSpec == NameInit /\ [][NameNext]_vars

\* ------------------------------------------------ claims: normalize_name
HasUnderscore(s) == \E i \in 1..Len(s) : s[i] = Underscore

\* C16: the key of a stem is its lowercased text before the first
\* underscore, a stem without underscore is keyed by its whole lowercased
\* stem, and two underscore-free stems that differ ignoring case get
\* different keys.
KeyIsLowercasedPrefix ==
    keys # NoKeys =>
        /\ \A n \in 1..2 :
             keys[n] = IF HasUnderscore(stems[n])
                       THEN Lower(SubSeq(stems[n], 1, Find(stems[n], Underscore)))
                       ELSE Lower(stems[n])
        /\ (~HasUnderscore(stems[1]) /\ ~HasUnderscore(stems[2])
                /\ Lower(stems[1]) # Lower(stems[2]))
               => keys[1] # keys[2]

\* ------------------------------------------------ crop_motionpro_videos
\* crop_params = {'x': -512, 'y': 0, 'w': 512, 'h': 320}
MotionProCrop == [x |-> 0 - 512, y |-> 0, w |-> 512, h |-> 320]

\* the crop spec of the flipped aspect ratio
FlippedCrop == [x |-> 0 - 320, y |-> 0, w |-> 320, h |-> 512]

CropParamsDefault(height) == MotionProCrop

\* crop_params_adjusted for a source of the given height
CropParamsFor(height) == IF height = 512 THEN FlippedCrop ELSE MotionProCrop

\* output_width = 512 if height != 512 else 320
OutputWidthFor(height) == IF height # 512 THEN 512 ELSE 320

\* the frame sizes the MotionPro.mp4 files may have
SourceWidths == {832, 300}

SourceHeights == {320, 512, 400}

Sources ==
    [exists : {TRUE}, width : SourceWidths, height : SourceHeights,
     nframes : 0..MaxFrames]

FlowInit ==
    /\ mc_bench_exists \in BOOLEAN
    /\ subdirs \in 0..MaxSubdirs
    /\ cpc = "check"
    /\ ci = 1
    /\ crop_src = NoSource
    /\ crop_cap = NoCapture
    /\ crop_out = NoCropWriter
    /\ crop_params_adjusted = NoCrop
    /\ crop_total = 0
    /\ crop_errors = <<>>
    /\ crop_ret = "none"
    /\ ConcatIdle
    /\ CropIdle
    /\ UserIdle
    /\ NameIdle
    /\ RenameIdle

\* the end of one iteration of "for subdir in subdirs": the next
\* subdirectory, or the summary and the return after the last one
NextSubdir(errs) ==
    IF ci = subdirs
    THEN /\ cpc' = "returned"
         /\ crop_ret' = IF errs = <<>> THEN "True" ELSE "False"
         /\ ci' = ci
    ELSE /\ cpc' = "item"
         /\ crop_ret' = crop_ret
         /\ ci' = ci + 1

\* the existence check and the listing of the subdirectories
CheckBench ==
    /\ cpc = "check"
    /\ IF ~mc_bench_exists \/ subdirs = 0
       THEN cpc' = "returned" /\ crop_ret' = "False"
       ELSE cpc' = "item" /\ crop_ret' = crop_ret
    /\ UNCHANGED <<mc_bench_exists, subdirs, ci, crop_src, crop_cap, crop_out,
                   crop_params_adjusted, crop_total, crop_errors>>
    /\ UNCHANGED notFlowVars

\* motionpro_file.exists(), cv2.VideoCapture and the choice of the crop spec
OpenMotionPro ==
    /\ cpc = "item"
    /\ crop_out' = NoCropWriter
    /\ \E src \in Sources \cup {NoSource}, isOpened \in BOOLEAN :
         /\ crop_src' = src
         /\ IF ~src.exists
            THEN /\ crop_cap' = NoCapture
                 /\ crop_params_adjusted' = NoCrop
                 /\ crop_errors' = crop_errors
                 /\ NextSubdir(crop_errors')
            ELSE IF ~isOpened
            THEN /\ crop_cap' = NoCapture
                 /\ crop_params_adjusted' = NoCrop
                 /\ crop_errors' = Append(crop_errors, <<ci, "Failed to open video">>)
                 /\ NextSubdir(crop_errors')
            ELSE /\ crop_cap' = [state |-> "open", pos |-> 0]
                 /\ crop_params_adjusted' = CropParamsFor(src.height)
                 /\ crop_errors' = crop_errors
                 /\ cpc' = "writer"
                 /\ UNCHANGED <<ci, crop_ret>>
    /\ UNCHANGED <<mc_bench_exists, subdirs, crop_total>>
    /\ UNCHANGED notFlowVars

\* cv2.VideoWriter(output_file, fourcc, fps, (output_width, output_height))
CreateCropWriter ==
    /\ cpc = "writer"
    /\ \E isOpened \in BOOLEAN :
         IF isOpened
         THEN /\ crop_out' = [state |-> "open",
                              width |-> OutputWidthFor(crop_src.height),
                              height |-> crop_src.height,
                              written |-> <<>>]
              /\ cpc' = "loop"
              /\ UNCHANGED <<crop_cap, crop_errors, ci, crop_ret>>
         ELSE /\ crop_out' = crop_out
              /\ crop_cap' = [crop_cap EXCEPT !.state = "released"]
              /\ crop_errors' =
                     Append(crop_errors, <<ci, "Failed to create output writer">>)
              /\ NextSubdir(crop_errors')
    /\ UNCHANGED <<mc_bench_exists, subdirs, crop_src, crop_params_adjusted,
                   crop_total>>
    /\ UNCHANGED notFlowVars

\* the size (width, height) of a frame
SizeOf(f) == <<Len(f.cols), Len(f.rows)>>

\* one iteration of the while loop: read, crop, write; the clean-up after
\* the last frame; the except handler of the item
CropLoop ==
    /\ cpc = "loop"
    /\ IF crop_cap.pos >= crop_src.nframes
       THEN \* ret is False: break, release both handles
            /\ crop_cap' = [crop_cap EXCEPT !.state = "released"]
            /\ crop_out' = [crop_out EXCEPT !.state = "released"]
            /\ crop_total' = crop_total + 1
            /\ crop_errors' = crop_errors
            /\ NextSubdir(crop_errors')
       ELSE \E fault \in {"none", "crop", "write"} :
            /\ crop_cap' = [crop_cap EXCEPT !.pos = @ + 1]
            /\ crop_total' = crop_total
            /\ CASE fault = "none" ->
                      /\ crop_out' = [crop_out EXCEPT !.written =
                             Append(@, SizeOf(crop_frame(
                                 MakeFrame(crop_src.height, crop_src.width),
                                 crop_params_adjusted)))]
                      /\ crop_errors' = crop_errors
                      /\ UNCHANGED <<cpc, ci, crop_ret>>
                 [] OTHER ->
                      \* except Exception as e: errors.append(...)
                      /\ crop_out' = crop_out
                      /\ crop_errors' = Append(crop_errors, <<ci, fault>>)
                      /\ NextSubdir(crop_errors')
    /\ UNCHANGED <<mc_bench_exists, subdirs, crop_src, crop_params_adjusted>>
    /\ UNCHANGED notFlowVars

FlowNext ==
    \/ CheckBench
    \/ OpenMotionPro
    \/ CreateCropWriter
    \/ CropLoop

FlowSpec == FlowInit /\ [][FlowNext]_vars

\* ------------------------------------------------ claims: crop workflow
WriterCreated == crop_out.state # "none"

\* C11: a source of height 512 selects the crop spec {-320, 0, 320, 512} and
\* a 320x512 writer; a source of height 320 selects {-512, 0, 512, 320} and
\* a 512x320 writer.
CropSelection ==
    WriterCreated =>
        /\ crop_src.height = 512 =>
               /\ crop_params_adjusted = [x |-> 0 - 320, y |-> 0, w |-> 320, h |-> 512]
               /\ <<crop_out.width, crop_out.height>> = <<320, 512>>
        /\ crop_src.height = 320 =>
               /\ crop_params_adjusted = [x |-> 0 - 512, y |-> 0, w |-> 512, h |-> 320]
               /\ <<crop_out.width, crop_out.height>> = <<512, 320>>

FlippedSourceCropped ==
    /\ crop_src.height = 512
    /\ crop_out.state = "released"
    /\ crop_out.written # <<>>

\* the item of the current subdirectory is over
ItemOver == cpc \in {"item", "returned"}

\* C15: when an item of the crop workflow is over its VideoCapture and its
\* VideoWriter, if opened, have been released.
CropHandlesReleased ==
    ItemOver =>
        /\ crop_cap.state \in {"none", "released"}
        /\ crop_out.state \in {"none", "released"}

\* C19: every cropped frame written has the width and height the writer
\* was created with.
WriterSizeMatchesFrames ==
    \A j \in 1..Len(crop_out.written) :
        crop_out.written[j] = <<crop_out.width, crop_out.height>>

\* ------------------------------------------------ rename_mcbench_videos
\* the *.mp4 entries a subdirectory may hold: a file, or a directory with
\* some mp4 files inside and possibly other files beside them
Items == [is_dir : BOOLEAN, inside : 0..2, other_files : BOOLEAN]

RenameInit ==
    /\ rn_exists \in BOOLEAN
    /\ rn_subdirs \in 0..MaxSubdirs
    /\ rn_items = 0
    /\ rpc = "check"
    /\ rsi = 1
    /\ rii = 1
    /\ rn_item = NoItem
    /\ video_at = "none"
    /\ dir_state = "none"
    /\ rn_total = 0
    /\ rn_errors = <<>>
    /\ rn_ret = "none"
    /\ ConcatIdle
    /\ CropIdle
    /\ UserIdle
    /\ NameIdle
    /\ FlowIdle

\* the end of "for subdir in subdirs": the next subdirectory, or the
\* summary and the return after the last one
NextRenameSubdir(errs) ==
    IF rsi = rn_subdirs
    THEN /\ rpc' = "returned"
         /\ rn_ret' = IF errs = <<>> THEN "True" ELSE "False"
         /\ rsi' = rsi
    ELSE /\ rpc' = "subdir"
         /\ rn_ret' = rn_ret
         /\ rsi' = rsi + 1

\* the end of "for mp4_item in mp4_items"
NextItem(errs) ==
    IF rii = rn_items
    THEN NextRenameSubdir(errs) /\ rii' = rii
    ELSE rpc' = "item" /\ rii' = rii + 1 /\ UNCHANGED <<rsi, rn_ret>>

\* the existence check and the listing of the subdirectories
CheckRenameBench ==
    /\ rpc = "check"
    /\ IF ~rn_exists \/ rn_subdirs = 0
       THEN rpc' = "returned" /\ rn_ret' = "False"
       ELSE rpc' = "subdir" /\ rn_ret' = rn_ret
    /\ UNCHANGED <<rn_exists, rn_subdirs, rn_items, rsi, rii, rn_item,
                   video_at, dir_state, rn_total, rn_errors>>
    /\ UNCHANGED notRenameVars

\* mp4_items = list(subdir.glob("*.mp4"))
ListSubdir ==
    /\ rpc = "subdir"
    /\ \E n \in 0..MaxItems :
         /\ rn_items' = n
         /\ IF n = 0
            THEN NextRenameSubdir(rn_errors) /\ rii' = rii
            ELSE rpc' = "item" /\ rii' = 1 /\ UNCHANGED <<rsi, rn_ret>>
    /\ UNCHANGED <<rn_exists, rn_subdirs, rn_item, video_at, dir_state,
                   rn_total, rn_errors>>
    /\ UNCHANGED notRenameVars

\* mp4_item.is_dir() and the count of the mp4 files inside it
InspectItem ==
    /\ rpc = "item"
    /\ \E item \in Items :
         /\ rn_item' = item
         /\ IF item.is_dir /\ item.inside = 1
            THEN /\ video_at' = "original"
                 /\ dir_state' = "present"
                 /\ rpc' = "move"
                 /\ UNCHANGED <<rn_errors, rsi, rii, rn_ret>>
            ELSE /\ video_at' = "none"
                 /\ dir_state' = "none"
                 /\ rn_errors' =
                      IF ~item.is_dir THEN rn_errors
                      ELSE IF item.inside = 0
                      THEN Append(rn_errors, <<rsi, rii, "No mp4 files found">>)
                      ELSE Append(rn_errors, <<rsi, rii, "Multiple mp4 files found">>)
                 /\ NextItem(rn_errors')
    /\ UNCHANGED <<rn_exists, rn_subdirs, rn_items, rn_total>>
    /\ UNCHANGED notRenameVars

\* mp4_file.rename(temp_path)
MoveToTemp ==
    /\ rpc = "move"
    /\ \E ok \in BOOLEAN :
         IF ok
         THEN video_at' = "temp" /\ rpc' = "rmdir"
         ELSE video_at' = video_at /\ rpc' = "except"
    /\ UNCHANGED <<rn_exists, rn_subdirs, rn_items, rsi, rii, rn_item,
                   dir_state, rn_total, rn_errors, rn_ret>>
    /\ UNCHANGED notRenameVars

\* mp4_item.rmdir(): fails on a directory that is not empty
RemoveDir ==
    /\ rpc = "rmdir"
    /\ \E ok \in BOOLEAN :
         IF ok /\ ~rn_item.other_files
         THEN dir_state' = "removed" /\ rpc' = "rename"
         ELSE dir_state' = dir_state /\ rpc' = "except"
    /\ UNCHANGED <<rn_exists, rn_subdirs, rn_items, rsi, rii, rn_item,
                   video_at, rn_total, rn_errors, rn_ret>>
    /\ UNCHANGED notRenameVars

\* temp_path.rename(target_path); total_processed += 1
RenameToTarget ==
    /\ rpc = "rename"
    /\ \E ok \in BOOLEAN :
         IF ok
         THEN /\ video_at' = "target"
              /\ rn_total' = rn_total + 1
              /\ NextItem(rn_errors)
         ELSE /\ video_at' = video_at
              /\ rn_total' = rn_total
              /\ rpc' = "except"
              /\ UNCHANGED <<rsi, rii, rn_ret>>
    /\ UNCHANGED <<rn_exists, rn_subdirs, rn_items, rn_item, dir_state,
                   rn_errors>>
    /\ UNCHANGED notRenameVars

\* if temp_path.exists(): temp_path.unlink()
UnlinkTemp(at) == IF at = "temp" THEN "gone" ELSE at

\* except Exception as e: record the error, clean up the temp file
RenameExcept ==
    /\ rpc = "except"
    /\ rn_errors' = Append(rn_errors, <<rsi, rii, "exception">>)
    /\ video_at' = UnlinkTemp(video_at)
    /\ NextItem(rn_errors')
    /\ UNCHANGED <<rn_exists, rn_subdirs, rn_items, rn_item, dir_state,
                   rn_total>>
    /\ UNCHANGED notRenameVars

RenameNext ==
    \/ CheckRenameBench
    \/ ListSubdir
    \/ InspectItem
    \/ MoveToTemp
    \/ RemoveDir
    \/ RenameToTarget
    \/ RenameExcept

RenameSpec == RenameInit /\ [][RenameNext]_vars

\* ------------------------------------------------ claims: rename workflow
\* the entry just processed was a directory holding exactly one mp4 file
SingleVideoItemOver ==
    /\ rpc \in {"item", "subdir", "returned"}
    /\ rn_item.is_dir
    /\ rn_item.inside = 1

\* C18: after a directory named *.mp4 with exactly one mp4 file has been
\* processed, the video is at its original, its temporary or its target
\* location, whichever step failed.
VideoNeverLost ==
    SingleVideoItemOver => video_at \in {"original", "temp", "target"}

====
